---------------------------- MODULE Spec2Model ----------------------------
(***************************************************************************)
(* Model of the notebook Lecture/Lecture_Eight_Interpolation.ipynb:        *)
(* the Lagrange basis evaluator lfun, the Lagrange interpolator            *)
(* lagran_interp and the natural cubic spline spline_maker, run in one     *)
(* kernel whose only global read by the functions is ivals.                *)
(*                                                                         *)
(* Floating point numbers are modelled by exact rationals <<num, den>>,    *)
(* den > 0 and the fraction in lowest terms; den = 0 encodes the           *)
(* non-finite values a division by zero yields in NumPy (<<1,0>> = inf,    *)
(* <<-1,0>> = -inf, <<0,0>> = nan).  The sparse solver spsolve is modelled *)
(* by exact elimination.  The loop of spline_maker uses xrange; the model  *)
(* follows the recorded run of the notebook (output of the driver cell),   *)
(* whose interpreter has that builtin, so the loop runs jj = 1..n.         *)
(***************************************************************************)
EXTENDS Integers, Sequences, FiniteSets, TLC

\* Bounds of the model.
MaxNode == 3      \* nodes are integers of 0..MaxNode
MaxVal  == 1      \* sample values are integers of 0..MaxVal
MaxQ    == 1      \* a query sequence has at most MaxQ entries

-----------------------------------------------------------------------------
\* Exact rational arithmetic standing for the float64 arithmetic of NumPy.

Abs(i) == IF i < 0 THEN -i ELSE i

Sgn(i) == IF i < 0 THEN -1 ELSE IF i > 0 THEN 1 ELSE 0

RECURSIVE GCD(_, _)
GCD(a, b) == IF b = 0 THEN a ELSE GCD(b, a % b)

\* The number n/d; n/0 is inf, -inf or nan as in IEEE arithmetic.
Q(n, d) ==
    IF d = 0 THEN <<Sgn(n), 0>>
    ELSE LET g == GCD(Abs(n), Abs(d))
         IN  <<(Sgn(d) * n) \div g, Abs(d) \div g>>

QInt(i) == <<i, 1>>

Zero == QInt(0)

One == QInt(1)

IsFinite(a) == a[2] # 0

QAdd(a, b) ==
    IF IsFinite(a) /\ IsFinite(b)
    THEN LET l == (a[2] \div GCD(a[2], b[2])) * b[2]
         IN  Q(a[1] * (l \div a[2]) + b[1] * (l \div b[2]), l)
    ELSE IF IsFinite(b) THEN a
    ELSE IF IsFinite(a) THEN b
    ELSE IF a = b THEN a ELSE <<0, 0>>

QNeg(a) == <<-a[1], a[2]>>

QSub(a, b) == QAdd(a, QNeg(b))

\* Common factors are cancelled before the products are formed.
QMul(a, b) ==
    IF IsFinite(a) /\ IsFinite(b)
    THEN LET g1 == GCD(Abs(a[1]), b[2])
             g2 == GCD(Abs(b[1]), a[2])
         IN  <<(a[1] \div g1) * (b[1] \div g2), (a[2] \div g2) * (b[2] \div g1)>>
    ELSE Q(a[1] * b[1], 0)

QDiv(a, b) ==
    IF b[1] = 0 /\ IsFinite(b) THEN Q(a[1], 0)
    ELSE IF ~IsFinite(b) THEN (IF IsFinite(a) /\ b[1] # 0 THEN Zero ELSE <<0, 0>>)
    ELSE Q(a[1] * b[2] * Sgn(b[1]), a[2] * Abs(b[1]))

\* a < b and a >= b of floats: every comparison with nan is false.
QLt(a, b) ==
    /\ a # <<0, 0>> /\ b # <<0, 0>>
    /\ IF IsFinite(a) /\ IsFinite(b) THEN a[1] * b[2] < b[1] * a[2]
       ELSE IF IsFinite(a) THEN b[1] > 0
       ELSE IF IsFinite(b) THEN a[1] < 0
       ELSE a[1] < b[1]

QGe(a, b) == a # <<0, 0>> /\ b # <<0, 0>> /\ ~QLt(a, b)

\* x**3. and x**2.
Cube(a) == QMul(a, QMul(a, a))

Square(a) == QMul(a, a)

-----------------------------------------------------------------------------
\* NumPy array operations on sequences (1-based here, 0-based in the code).

\* An array is a value: its entries are computed when it is built (the
\* concatenation makes TLC evaluate the sequence once instead of at each use).
Array(s) == s \o << >>

\* np.zeros(k) and np.ones(k)
Zeros(k) == Array([i \in 1..k |-> Zero])

Ones(k) == Array([i \in 1..k |-> One])

\* a[1:] - a[0:n] for an array a of n+1 entries: the n forward differences
Diff(a) == Array([i \in 1..(Len(a) - 1) |-> QSub(a[i + 1], a[i])])

\* np.linspace(lo, hi, num)
Linspace(lo, hi, num) ==
    Array([i \in 1..num |->
        IF num = 1 THEN lo
        ELSE QAdd(lo, QMul(QInt(i - 1), QDiv(QSub(hi, lo), QInt(num - 1))))])

-----------------------------------------------------------------------------
\* The kernel's namespace and the arguments of the calls.
VARIABLES
    xvals,    \* the nodes x_0..x_n of the Sample Set
    fvals,    \* the values f_0..f_n of the Sample Set
    qvals,    \* a Query Set
    ivals,    \* the global ivals: [defined, val]
    ret,      \* the last call: function, arguments and outcome
    first     \* history: the outcome of the first call
              \* spline_maker(xvals, fvals, qvals) of this kernel

vars == <<xvals, fvals, qvals, ivals, ret, first>>

-----------------------------------------------------------------------------
\* lfun with the wrong start of the product: np.zeros in place of np.ones.
lfunZeros(xv, jj, x) == Zeros(Len(x))

\* lfun(xvals, jj, x): the body is np.ones(x.size) and nothing else.
lfun(xv, jj, x) == Ones(Len(x))

\* lagran_interp(xvals, fvals, x): n = fvals.size, then "return ipoly" with no
\* ipoly bound in the function or in the kernel: the call raises NameError.
lagran_interp(xv, fv, x) == [status |-> "NameError", val |-> << >>]

-----------------------------------------------------------------------------
\* spline_maker, lines 385-400: the coefficient construction.

\* Dfdx with the wrong operator: df*dx in place of df/dx.
DfdxTimes(df, dx) == Array([i \in 1..Len(df) |-> QMul(df[i], dx[i])])

\* dfdx = df/dx
Dfdx(df, dx) == Array([i \in 1..Len(df) |-> QDiv(df[i], dx[i])])

\* rhs = dfdx[1:] - dfdx[0:n-1]
Rhs(dfdx) == Diff(dfdx)

TwoThirds == Q(2, 3)

Three == QInt(3)

\* Diag with a slicing slip: dx[0:n-1] taken twice.
DiagSameSlice(dx) == Array([i \in 1..(Len(dx) - 1) |-> QMul(Q(2, 3), QAdd(dx[i], dx[i]))])

\* diag = 2./3.*(dx[1:] + dx[0:n-1])
Diag(dx) == Array([i \in 1..(Len(dx) - 1) |-> QMul(TwoThirds, QAdd(dx[i + 1], dx[i]))])

\* Data with the wrong weight of the off-diagonals: dx/2. in place of dx/3.
DataHalves(dx) ==
    << Diag(dx),
       Array([i \in 1..(Len(dx) - 1) |-> QDiv(dx[i + 1], QInt(2))]),
       Array([i \in 1..(Len(dx) - 1) |-> QDiv(dx[i], QInt(2))]) >>

\* data = np.array([diag, dx[1:]/3., dx[0:n-1]/3.])
Data(dx) ==
    << Diag(dx),
       Array([i \in 1..(Len(dx) - 1) |-> QDiv(dx[i + 1], Three)]),
       Array([i \in 1..(Len(dx) - 1) |-> QDiv(dx[i], Three)]) >>

\* Dvals in another order: the rows of data lie on the wrong diagonals.
DvalsMisordered == <<1, 0, -1>>

\* dvals = np.array([0,-1,1])
Dvals == <<0, -1, 1>>

\* spdiags(data, diags, m, m): row k of data lies on diagonal diags[k], and the
\* entry of column c is data[k][c] (SciPy indexes a diagonal by its column).
Spdiags(data, diags, m) ==
    Array([r \in 1..m |-> Array([c \in 1..m |->
        IF \E k \in 1..Len(diags) : c - r = diags[k]
        THEN LET k == CHOOSE k \in 1..Len(diags) : c - r = diags[k]
             IN  data[k][c]
        ELSE Zero])])

\* Bmat = spdiags(data, dvals, n-1, n-1)
Bmat(dx) == Spdiags(Data(dx), Dvals, Len(dx) - 1)

\* spsolve(A, b): the solution of A y = b, by elimination on the first column.
RECURSIVE Spsolve(_, _)
Spsolve(A, b) ==
    LET m == Len(b)
    IN  IF m = 0 THEN << >>
        ELSE IF m = 1 THEN << QDiv(b[1], A[1][1]) >>
        ELSE LET f(i) == QDiv(A[i + 1][1], A[1][1])
                 A2 == Array([i \in 1..(m - 1) |-> Array([j \in 1..(m - 1) |->
                           QSub(A[i + 1][j + 1], QMul(f(i), A[1][j + 1]))])])
                 b2 == Array([i \in 1..(m - 1) |-> QSub(b[i + 1], QMul(f(i), b[1]))])
                 y  == Spsolve(A2, b2)
                 RECURSIVE Dot(_)
                 Dot(j) == IF j = 0 THEN Zero
                           ELSE QAdd(Dot(j - 1), QMul(A[1][j + 1], y[j]))
             IN  << QDiv(QSub(b[1], Dot(m - 1)), A[1][1]) >> \o y

\* bvec = spsolve(Bmat, rhs); bvec = np.append(0., bvec)
Bvec(dx, dfdx) == << Zero >> \o Spsolve(Bmat(dx), Rhs(dfdx))

\* Cvec with a shifting slip: bvec itself in place of np.append(bvec[1:], 0.).
CvecUnshifted(dx, dfdx, bvec) ==
    Array([i \in 1..Len(dx) |->
        QSub(QSub(dfdx[i], QMul(QMul(Q(2, 3), dx[i]), bvec[i])),
             QMul(QDiv(dx[i], QInt(3)), bvec[i]))])

\* cvec = dfdx - 2./3.*dx*bvec - dx/3.*np.append(bvec[1:], 0.)
Cvec(dx, dfdx, bvec) ==
    Array([i \in 1..Len(dx) |->
        QSub(QSub(dfdx[i], QMul(QMul(TwoThirds, dx[i]), bvec[i])),
             QMul(QDiv(dx[i], Three), (Tail(bvec) \o << Zero >>)[i]))])

\* Avec with the wrong power of dx: dx in place of dx**2.
AvecFirstPower(dx, dfdx, bvec, cvec) ==
    Array([i \in 1..Len(dx) |->
        QDiv(QSub(QSub(dfdx[i], QMul(dx[i], bvec[i])), cvec[i]), dx[i])])

\* avec = (dfdx - dx*bvec - cvec)/(dx**2.)
Avec(dx, dfdx, bvec, cvec) ==
    Array([i \in 1..Len(dx) |->
        QDiv(QSub(QSub(dfdx[i], QMul(dx[i], bvec[i])), cvec[i]), Square(dx[i]))])

\* Lines 385-400: the locals of spline_maker once the coefficients are built.
Coefficients(xv, fv) ==
    LET dx   == Diff(xv)
        dfdx == Dfdx(Diff(fv), dx)
        bvec == Bvec(dx, dfdx)
        cvec == Cvec(dx, dfdx, bvec)
    IN  [avec |-> Avec(dx, dfdx, bvec, cvec), bvec |-> bvec, cvec |-> cvec]

-----------------------------------------------------------------------------
\* Inds with the interval closed on the right: qvals <= xvals[jj].
IndsClosed(xv, qv, jj, i) == QGe(qv[i], xv[jj]) /\ QGe(xv[jj + 1], qv[i])

\* Lines 404-406: entry i of the mask inds = indsl*indsr of iteration jj.
Inds(xv, qv, jj, i) == QGe(qv[i], xv[jj]) /\ QLt(qv[i], xv[jj + 1])

\* spline_maker, lines 402-411: the segment loop, from iteration jj on.  The
\* mask inds has one entry per query; svals[inds] = ... raises IndexError when
\* svals has another length.  sel[i] lists the iterations that wrote svals[i].
RECURSIVE SegmentLoop(_, _, _, _, _, _, _, _, _)
SegmentLoop(jj, svals, sel, xv, fv, qv, avec, bvec, cvec) ==
    IF jj > Len(fv) - 1 THEN [status |-> "ok", val |-> svals, sel |-> sel]
    ELSE IF Len(svals) # Len(qv)
         THEN [status |-> "IndexError", val |-> << >>, sel |-> << >>]
    ELSE LET inds(i)  == Inds(xv, qv, jj, i)
             dxloc(i) == QSub(qv[i], xv[jj])
             S(i) == QAdd(QAdd(QAdd(QMul(avec[jj], Cube(dxloc(i))),
                                    QMul(bvec[jj], Square(dxloc(i)))),
                               QMul(cvec[jj], dxloc(i))),
                          fv[jj])
             next == Array([i \in 1..Len(svals) |-> IF inds(i) THEN S(i) ELSE svals[i]])
             wrote == Array([i \in 1..Len(sel) |->
                         IF inds(i) THEN Append(sel[i], jj) ELSE sel[i]])
         IN  SegmentLoop(jj + 1, next, wrote, xv, fv, qv, avec, bvec, cvec)

\* The body of spline_maker run in a kernel whose global ivals is g: line 389
\* reads the global (NameError when the kernel has not bound it) and sizes
\* svals by it; the local coefficient vectors are kept in the outcome, as they
\* stand when the call ends.
SplineMakerBody(xv, fv, qv, g) ==
    IF ~g.defined
    THEN [status |-> "NameError", val |-> << >>, sel |-> << >>,
          avec |-> << >>, bvec |-> << >>, cvec |-> << >>]
    ELSE LET co  == Coefficients(xv, fv)
             out == SegmentLoop(1, Zeros(Len(g.val)),
                                Array([i \in 1..Len(g.val) |-> << >>]),
                                xv, fv, qv, co.avec, co.bvec, co.cvec)
         IN  [status |-> out.status, val |-> out.val, sel |-> out.sel,
              avec |-> co.avec, bvec |-> co.bvec, cvec |-> co.cvec]

\* spline_maker(xvals, fvals, qvals), called in the current kernel.
spline_maker(xv, fv, qv) == SplineMakerBody(xv, fv, qv, ivals)

-----------------------------------------------------------------------------
\* The inputs: strictly increasing nodes, values, queries.

RECURSIVE SortedSeq(_)
SortedSeq(S) ==
    IF S = {} THEN << >>
    ELSE LET m == CHOOSE x \in S : \A y \in S : x <= y
         IN  << QInt(m) >> \o SortedSeq(S \ {m})

\* Sample Sets have at least three nodes: the system of spline_maker has n-1
\* unknowns for n+1 nodes.
NodeSeqs == { SortedSeq(S) : S \in { T \in SUBSET (0..MaxNode) : Cardinality(T) >= 3 } }

ValSeqs(k) == [1..k -> { QInt(v) : v \in 0..MaxVal }]

QueryVals == { QInt(q) : q \in (-1)..(MaxNode + 1) }

QuerySeqs == UNION { [1..k -> QueryVals] : k \in 0..MaxQ }

NoCall ==
    [fn |-> "none", jj |-> 0, q |-> << >>, status |-> "none", val |-> << >>,
     sel |-> << >>, avec |-> << >>, bvec |-> << >>, cvec |-> << >>]

NoOutcome == [status |-> "none", val |-> << >>]

Init ==
    /\ xvals \in NodeSeqs
    /\ fvals \in ValSeqs(Len(xvals))
    /\ qvals \in QuerySeqs
    /\ ivals = [defined |-> FALSE, val |-> << >>]
    /\ ret = NoCall
    /\ first = NoOutcome

\* The history variable keeps the first outcome of spline_maker on qvals.
Remember(q, out) ==
    first' = IF first = NoOutcome /\ q = qvals
             THEN [status |-> out.status, val |-> out.val]
             ELSE first

\* A cell calls lfun(xvals, jj, qvals).
CallLfun(jj) ==
    /\ ret' = [NoCall EXCEPT !.fn = "lfun", !.jj = jj, !.q = qvals,
                             !.status = "ok", !.val = lfun(xvals, jj, qvals)]
    /\ UNCHANGED <<xvals, fvals, qvals, ivals, first>>

\* The example cell, line 141: ivals = lagran_interp(xvals, fvals, xinterp); the
\* assignment to ivals happens only when the call returns.
CallLagranInterp ==
    /\ ret' = [NoCall EXCEPT !.fn = "lagran_interp", !.q = qvals,
                   !.status = lagran_interp(xvals, fvals, qvals).status,
                   !.val = lagran_interp(xvals, fvals, qvals).val]
    /\ ivals' = IF lagran_interp(xvals, fvals, qvals).status = "ok"
                THEN [defined |-> TRUE, val |-> lagran_interp(xvals, fvals, qvals).val]
                ELSE ivals
    /\ UNCHANGED <<xvals, fvals, qvals, first>>

\* CallSplineMaker with an aliasing slip: svals = qvals in place of a fresh
\* array, so that the loop writes the result into the Query Set.
CallSplineMakerInPlace ==
    /\ ret' = [fn |-> "spline_maker", jj |-> 0, q |-> qvals]
              @@ spline_maker(xvals, fvals, qvals)
    /\ Remember(qvals, ret')
    /\ qvals' = IF ret'.status = "ok" THEN ret'.val ELSE qvals
    /\ UNCHANGED <<xvals, fvals, ivals>>

\* A cell calls spline_maker(xvals, fvals, qvals).
CallSplineMaker ==
    /\ ret' = [fn |-> "spline_maker", jj |-> 0, q |-> qvals]
              @@ spline_maker(xvals, fvals, qvals)
    /\ Remember(qvals, ret')
    /\ UNCHANGED <<xvals, fvals, qvals, ivals>>

IvalsLo == Q(-99, 100)

IvalsHi == Q(99, 100)

\* Line 466: ivals = np.linspace(-.99, .99, num); num is 5000 in the notebook.
DriverIvals(num) == [defined |-> TRUE, val |-> Linspace(IvalsLo, IvalsHi, num)]

\* The driver cell, lines 466-469: it binds ivals, then runs
\* svals = spline_maker(xvs, fvs, ivals).
DriverCell(num) ==
    /\ ivals' = DriverIvals(num)
    /\ ret' = [fn |-> "spline_maker", jj |-> 0, q |-> DriverIvals(num).val]
              @@ SplineMakerBody(xvals, fvals, DriverIvals(num).val, DriverIvals(num))
    /\ Remember(DriverIvals(num).val, ret')
    /\ UNCHANGED <<xvals, fvals, qvals>>

Next ==
    \/ \E jj \in 0..(Len(xvals) - 1) : CallLfun(jj)
    \/ CallLagranInterp
    \/ CallSplineMaker
    \/ \E num \in 0..MaxQ : DriverCell(num)

Spec == Init /\ [][Next]_vars

\* The spline cells alone, in a kernel started with an empty Query Set: the
\* specification of the claims about the coefficients, which no query enters.
InitCoef == Init /\ qvals = << >>

NextCoef ==
    \/ CallSplineMaker
    \/ \E num \in 0..MaxQ : DriverCell(num)

SpecCoef == InitCoef /\ [][NextCoef]_vars

\* Sample values that are a function of the nodes, as fvs is of xvs in the
\* driver cell (line 465); here the parity of the node.
SampleVals(xv) == [i \in 1..Len(xv) |-> QInt(xv[i][1] % 2)]

\* All the cells, in a kernel whose Sample Set is such a sample: the
\* specification of the claims that turn on the Query Set alone.
InitQuery == Init /\ fvals = SampleVals(xvals)

SpecQuery == InitQuery /\ [][Next]_vars

\* The spline cells alone, in such a kernel.
SpecScan == InitQuery /\ [][NextCoef]_vars

\* Sample Sets of a single node (n = 0), and the Lagrange cells run on them.
OneNodeSeqs == { << QInt(v) >> : v \in 0..MaxNode }

InitOne ==
    /\ xvals \in OneNodeSeqs
    /\ fvals \in ValSeqs(Len(xvals))
    /\ qvals \in QuerySeqs
    /\ ivals = [defined |-> FALSE, val |-> << >>]
    /\ ret = NoCall
    /\ first = NoOutcome

NextLagrange ==
    \/ \E jj \in 0..(Len(xvals) - 1) : CallLfun(jj)
    \/ CallLagranInterp

SpecOne == InitOne /\ [][NextLagrange]_vars

\* Sample Sets of three nodes in which two nodes coincide: sorted node arrays,
\* not strictly increasing, so that dx (line 387) has a zero entry.
DupNodeSeqs ==
    { s \in [1..3 -> { QInt(v) : v \in 0..MaxNode }] :
        /\ \A i \in 1..(Len(s) - 1) : QGe(s[i + 1], s[i])
        /\ \E i \in 1..(Len(s) - 1) : s[i + 1] = s[i] }

\* A kernel whose Sample Set has coincident nodes.
InitDup ==
    /\ xvals \in DupNodeSeqs
    /\ fvals \in ValSeqs(Len(xvals))
    /\ qvals \in QuerySeqs
    /\ ivals = [defined |-> FALSE, val |-> << >>]
    /\ ret = NoCall
    /\ first = NoOutcome

SpecDup == InitDup /\ [][Next]_vars

-----------------------------------------------------------------------------
\* What the notebook's text states of the interpolants.

\* L_j(x) = prod_{l # j} (x - x_l) / (x_j - x_l), the factors l = 1..k taken;
\* jj is the 0-based index of the node, as in lfun.
RECURSIVE BasisProduct(_, _, _, _)
BasisProduct(xv, jj, x, k) ==
    IF k = 0 THEN One
    ELSE QMul(BasisProduct(xv, jj, x, k - 1),
              IF k = jj + 1 THEN One
              ELSE QDiv(QSub(x, xv[k]), QSub(xv[jj + 1], xv[k])))

LagrangeBasis(xv, jj, x) == BasisProduct(xv, jj, x, Len(xv))

\* P_n(x) = sum_j f_j L_j(x), the terms j = 0..k-1 taken.
RECURSIVE LagrangeSum(_, _, _, _)
LagrangeSum(xv, fv, x, k) ==
    IF k = 0 THEN Zero
    ELSE QAdd(LagrangeSum(xv, fv, x, k - 1),
              QMul(fv[k], LagrangeBasis(xv, k - 1, x)))

\* S_j, S_j' and S_j'' at the offset d from the left node of segment j (1-based).
CubicAt(co, fv, j, d) ==
    QAdd(QAdd(QAdd(QMul(co.avec[j], Cube(d)), QMul(co.bvec[j], Square(d))),
              QMul(co.cvec[j], d)),
         fv[j])

CubicD1At(co, j, d) ==
    QAdd(QAdd(QMul(QMul(Three, co.avec[j]), Square(d)),
              QMul(QMul(QInt(2), co.bvec[j]), d)),
         co.cvec[j])

CubicD2At(co, j, d) ==
    QAdd(QMul(QMul(QInt(6), co.avec[j]), d), QMul(QInt(2), co.bvec[j]))

QLe(a, b) == QGe(b, a)

InDomain(xv, q) == QLe(xv[1], q) /\ QLe(q, xv[Len(xv)])

\* The segment (1-based) of a query of the covered interval: [x_{j-1}, x_j),
\* the last one closed on the right.
SegmentOf(xv, q) ==
    CHOOSE j \in 1..(Len(xv) - 1) :
        \/ QLe(xv[j], q) /\ QLt(q, xv[j + 1])
        \/ j = Len(xv) - 1 /\ q = xv[j + 1]

LagranCalled == ret.fn = "lagran_interp"

LfunCalled == ret.fn = "lfun"

SplineReturned == ret.fn = "spline_maker" /\ ret.status = "ok"

\* spline_maker got past line 400: its coefficient vectors exist.
CoefficientsBuilt == ret.fn = "spline_maker" /\ ret.status # "NameError"

-----------------------------------------------------------------------------
\* C1: every call lagran_interp(xvals, fvals, x) returns (it does not end in an
\* error) a sequence as long as x whose i-th entry is sum_j f_j * L_j(x[i]).
C1_LagranInterpIsWeightedSum ==
    LagranCalled =>
        /\ ret.status = "ok"
        /\ Len(ret.val) = Len(ret.q)
        /\ \A i \in 1..Len(ret.q) :
              ret.val[i] = LagrangeSum(xvals, fvals, ret.q[i], Len(xvals))

\* C2: every call lfun(xvals, jj, x) returns a sequence as long as x whose i-th
\* entry is the product over l # jj of (x[i] - x_l) / (x_jj - x_l).
C2_LfunIsBasisProduct ==
    LfunCalled =>
        /\ Len(ret.val) = Len(ret.q)
        /\ \A i \in 1..Len(ret.q) :
              ret.val[i] = LagrangeBasis(xvals, ret.jj, ret.q[i])

\* C3: basis orthogonality: lfun called for index j with the node x_k as query
\* returns 1 when j = k and 0 when j # k.
C3_BasisOrthogonality ==
    LfunCalled =>
        \A i \in 1..Len(ret.q) : \A k \in 0..(Len(xvals) - 1) :
            ret.q[i] = xvals[k + 1] =>
                ret.val[i] = IF ret.jj = k THEN One ELSE Zero

\* C4: node reproduction: lagran_interp evaluated at a node x_j returns f_j.
C4_LagranReproducesNodes ==
    LagranCalled =>
        /\ ret.status = "ok"
        /\ \A i \in 1..Len(ret.q) : \A j \in 1..Len(xvals) :
              ret.q[i] = xvals[j] => ret.val[i] = fvals[j]

\* C5: for every query q with x_0 <= q <= x_n the value spline_maker returns is
\* the cubic of the segment whose interval [x_{j-1}, x_j) holds q, taken at
\* q - x_{j-1}; the last interval is closed on the right and holds q = x_n.
C5_SplineEvaluatesContainingSegment ==
    SplineReturned =>
        \A i \in 1..Len(ret.q) :
            InDomain(xvals, ret.q[i]) =>
                ret.val[i] = CubicAt(ret, fvals, SegmentOf(xvals, ret.q[i]),
                                     QSub(ret.q[i], xvals[SegmentOf(xvals, ret.q[i])]))

\* C6: node reproduction by the spline: spline_maker evaluated at a node x_j
\* returns f_j for every j in 0..n, the last node x_n included.
C6_SplineReproducesNodes ==
    SplineReturned =>
        \A i \in 1..Len(ret.q) : \A j \in 1..Len(xvals) :
            ret.q[i] = xvals[j] => ret.val[i] = fvals[j]

\* C7: spline continuity: at every interior node x_j (j = 1..n-1) the value,
\* the first and the second derivative of segment j-1's cubic at its right end
\* (offset dx_{j-1}) equal those of segment j's cubic at its left end (offset 0).
C7_SplineContinuity ==
    CoefficientsBuilt =>
        \A j \in 1..(Len(xvals) - 2) :
            /\ CubicAt(ret, fvals, j, Diff(xvals)[j]) = CubicAt(ret, fvals, j + 1, Zero)
            /\ CubicD1At(ret, j, Diff(xvals)[j]) = CubicD1At(ret, j + 1, Zero)
            /\ CubicD2At(ret, j, Diff(xvals)[j]) = CubicD2At(ret, j + 1, Zero)

\* Witness of C7: coefficients were built for a sample of two or more interior
\* nodes whose spline bends at each of them (nonzero curvature and slope).
C7_Witness ==
    /\ CoefficientsBuilt
    /\ Len(ret.bvec) >= 3
    /\ \A j \in 2..Len(ret.bvec) : ret.bvec[j] # Zero /\ ret.cvec[j] # Zero

\* C8: natural boundary: the second derivative of the first segment at x_0
\* (2*b_0) is zero, and that of the last segment at x_n
\* (6*a_{n-1}*dx_{n-1} + 2*b_{n-1}) is zero.
C8_NaturalBoundary ==
    CoefficientsBuilt =>
        /\ CubicD2At(ret, 1, Zero) = Zero
        /\ CubicD2At(ret, Len(xvals) - 1, Diff(xvals)[Len(xvals) - 1]) = Zero

\* Witness of C8: coefficients were built and the last segment has a nonzero
\* curvature at its left end, which its cubic term brings to zero at x_n.
C8_Witness ==
    /\ CoefficientsBuilt
    /\ ret.bvec[Len(ret.bvec)] # Zero
    /\ ret.avec[Len(ret.avec)] # Zero

\* C9: every call spline_maker(xvals, fvals, qvals) returns a sequence with
\* exactly as many entries as qvals.
C9_SplineResultHasQueryLength ==
    ret.fn = "spline_maker" =>
        /\ ret.status = "ok"
        /\ Len(ret.val) = Len(ret.q)

\* C10: spline_maker is a pure function of its arguments: a call with the
\* arguments of an earlier call has the outcome of that earlier call, whatever
\* the kernel's globals are and whatever ran in between.
C10_SplineMakerIsPure ==
    (ret.fn = "spline_maker" /\ ret.q = qvals /\ first # NoOutcome) =>
        /\ ret.status = first.status
        /\ ret.val = first.val

\* C11: for every query q outside the covered interval (q < x_0 or q > x_n) a
\* call of spline_maker that returns a result holds, at q, the value of the
\* nearest endpoint (f_0 or f_n) or the nearest segment's cubic taken at q; the
\* only other outcome allowed is an error.
C11_OutOfDomainPolicy ==
    SplineReturned =>
        \A i \in 1..Len(ret.q) :
            ~InDomain(xvals, ret.q[i]) =>
                LET j == IF QLt(ret.q[i], xvals[1]) THEN 1 ELSE Len(xvals) - 1
                    e == IF QLt(ret.q[i], xvals[1]) THEN 1 ELSE Len(xvals)
                IN  \/ ret.val[i] = fvals[e]
                    \/ ret.val[i] = CubicAt(ret, fvals, j, QSub(ret.q[i], xvals[j]))

Coincident(xv) == \E i, k \in 1..Len(xv) : i # k /\ xv[i] = xv[k]

\* C12: called on a Sample Set in which two nodes coincide, lfun and
\* spline_maker end in an error and return no numeric result sequence.
C12_CoincidentNodesRaise ==
    (Coincident(xvals) /\ ret.fn \in {"lfun", "spline_maker"}) =>
        /\ ret.status # "ok"
        /\ ret.val = << >>

\* C13: every call of lfun, lagran_interp and spline_maker, whether it returns
\* or raises, leaves the node, value and query arrays as they were: the arrays
\* of the kernel do not change, and the query array the call received is still
\* the one the kernel holds.
C13_ArgumentsUnchanged ==
    [][/\ xvals' = xvals
       /\ fvals' = fvals
       /\ qvals' = qvals
       /\ \/ ret'.q = qvals'
          \/ ret'.fn = "spline_maker" /\ ivals'.defined /\ ret'.q = ivals'.val]_vars

\* Witness of C13: spline_maker has returned a result for a non-empty Query
\* Set (a success) and lagran_interp has then raised (a failure).
C13_Witness ==
    /\ first.status = "ok"
    /\ Len(qvals) >= 1
    /\ ret.fn = "lagran_interp"
    /\ ret.status = "NameError"

\* C14: for a node sequence of a single node and the index 0, lfun returns one
\* entry per query and every entry is 1 (the empty product).
C14_SingleNodeBasisIsOne ==
    (LfunCalled /\ Len(xvals) = 1 /\ ret.jj = 0) =>
        /\ Len(ret.val) = Len(ret.q)
        /\ \A i \in 1..Len(ret.q) : ret.val[i] = One

\* Witness of C14: lfun was called for the only node of a Sample Set with a
\* query that is not that node.
C14_Witness ==
    /\ LfunCalled
    /\ Len(xvals) = 1
    /\ ret.jj = 0
    /\ \E i \in 1..Len(ret.q) : ret.q[i] # xvals[1]

\* The notebook's equations for b_1..b_{n-1} (row r = 1..n-1, the row i = r-1
\* of the text): the divided differences g_j, the tridiagonal matrix and the
\* right-hand side.
DividedDiff(xv, fv) ==
    [j \in 1..(Len(xv) - 1) |->
        QDiv(QSub(fv[j + 1], fv[j]), QSub(xv[j + 1], xv[j]))]

Tridiagonal(xv) ==
    LET dx(j) == QSub(xv[j + 1], xv[j])
    IN  [r \in 1..(Len(xv) - 2) |-> [c \in 1..(Len(xv) - 2) |->
            IF c = r THEN QMul(Q(2, 3), QAdd(dx(r), dx(r + 1)))
            ELSE IF c = r + 1 THEN QDiv(dx(r + 1), QInt(3))
            ELSE IF c = r - 1 THEN QDiv(dx(r), QInt(3))
            ELSE Zero]]

TridiagonalRhs(xv, fv) ==
    [r \in 1..(Len(xv) - 2) |->
        QSub(DividedDiff(xv, fv)[r + 1], DividedDiff(xv, fv)[r])]

\* row . y, the first k terms
RECURSIVE RowTimes(_, _, _)
RowTimes(row, y, k) ==
    IF k = 0 THEN Zero
    ELSE QAdd(RowTimes(row, y, k - 1), QMul(row[k], y[k]))

C16_CoefficientFormulas ==
    CoefficientsBuilt =>
        LET n     == Len(xvals) - 1
            g     == DividedDiff(xvals, fvals)
            dx(j) == QSub(xvals[j + 1], xvals[j])
            b     == ret.bvec \o << Zero >>
        IN  /\ Len(ret.bvec) = n /\ Len(ret.cvec) = n /\ Len(ret.avec) = n
            /\ b[1] = Zero
            /\ \A j \in 1..n :
                  /\ ret.cvec[j] =
                        QSub(g[j], QMul(QDiv(dx(j), QInt(3)),
                                        QAdd(QMul(QInt(2), b[j]), b[j + 1])))
                  /\ ret.avec[j] =
                        QDiv(QSub(QSub(g[j], QMul(dx(j), b[j])), ret.cvec[j]),
                             QMul(dx(j), dx(j)))
            /\ ret.status = "ok" =>
                  \A i \in 1..Len(ret.q) : \A j \in 1..n :
                      (QLe(xvals[j], ret.q[i]) /\ QLt(ret.q[i], xvals[j + 1])) =>
                          ret.val[i] = CubicAt(ret, fvals, j, QSub(ret.q[i], xvals[j]))

\* Witness of C16: spline_maker returned the value f_j # 0 for a query at the
\* left node of a segment j >= 1 whose curvature b_j is not zero.
C16_Witness ==
    /\ SplineReturned
    /\ \E i \in 1..Len(ret.q) : \E j \in 2..(Len(xvals) - 1) :
          /\ ret.q[i] = xvals[j]
          /\ ret.val[i] = fvals[j]
          /\ fvals[j] # Zero
          /\ ret.bvec[j] # Zero

\* C17: right-end interpolation: for the coefficients spline_maker computes,
\* every segment j = 0..n-1, the last one included, satisfies
\* a_j*dx_j^3 + b_j*dx_j^2 + c_j*dx_j + f_j = f_{j+1}.
C17_RightEndInterpolation ==
    CoefficientsBuilt =>
        \A j \in 1..(Len(xvals) - 1) :
            LET d == QSub(xvals[j + 1], xvals[j])
            IN  QAdd(QAdd(QAdd(QMul(ret.avec[j], QMul(d, QMul(d, d))),
                               QMul(ret.bvec[j], QMul(d, d))),
                          QMul(ret.cvec[j], d)),
                     fvals[j]) = fvals[j + 1]

\* Witness of C17: coefficients were built for a sample whose last two values
\* differ and whose segments all have a cubic term.
C17_Witness ==
    /\ CoefficientsBuilt
    /\ fvals[Len(fvals)] # fvals[Len(fvals) - 1]
    /\ \A j \in 1..Len(ret.avec) : ret.avec[j] # Zero

\* A binary search over the sorted nodes: the number of nodes <= q, which for
\* x_0 <= q < x_n is the jj with x_{jj-1} <= q < x_jj; lo and hi are 0-based.
RECURSIVE Bisect(_, _, _, _)
Bisect(xv, q, lo, hi) ==
    IF lo >= hi THEN lo
    ELSE LET mid == (lo + hi) \div 2
         IN  IF QLt(q, xv[mid + 1]) THEN Bisect(xv, q, lo, mid)
             ELSE Bisect(xv, q, mid + 1, hi)

\* C18: for every query q with x_0 <= q < x_n the loop of spline_maker selects
\* q in exactly one iteration, the one a binary search over the nodes returns,
\* and the value returned is that segment's cubic; no entry of the result is
\* written more than once.
C18_ScanIsBinarySearch ==
    SplineReturned =>
        \A i \in 1..Len(ret.q) :
            /\ Len(ret.sel[i]) <= 1
            /\ (QLe(xvals[1], ret.q[i]) /\ QLt(ret.q[i], xvals[Len(xvals)])) =>
                  LET jj == Bisect(xvals, ret.q[i], 0, Len(xvals))
                  IN  /\ ret.sel[i] = << jj >>
                      /\ QLe(xvals[jj], ret.q[i]) /\ QLt(ret.q[i], xvals[jj + 1])
                      /\ ret.val[i] = CubicAt(ret, fvals, jj, QSub(ret.q[i], xvals[jj]))

\* Witness of C18: spline_maker returned for a query at an interior node, which
\* bounds two intervals, and the loop wrote its entry in a later iteration
\* than the first.
C18_Witness ==
    /\ SplineReturned
    /\ \E i \in 1..Len(ret.q) : \E j \in 2..(Len(xvals) - 1) :
          /\ ret.q[i] = xvals[j]
          /\ ret.sel[i] = << j >>

\* The sum of the entries of a row outside column r, the first k columns taken.
RECURSIVE OffDiagonalSum(_, _, _)
OffDiagonalSum(row, r, k) ==
    IF k = 0 THEN Zero
    ELSE QAdd(OffDiagonalSum(row, r, k - 1), IF k = r THEN Zero ELSE row[k])

\* The determinant, expanded along the first row.
Minor(A, c) ==
    Array([i \in 1..(Len(A) - 1) |-> Array([j \in 1..(Len(A) - 1) |->
        A[i + 1][IF j < c THEN j ELSE j + 1]])])

RECURSIVE Det(_), DetSum(_, _)
Det(A) ==
    IF Len(A) = 0 THEN One
    ELSE IF Len(A) = 1 THEN A[1][1]
    ELSE DetSum(A, Len(A))

DetSum(A, k) ==
    IF k = 0 THEN Zero
    ELSE QAdd(DetSum(A, k - 1),
              QMul(QMul(QInt(IF k % 2 = 1 THEN 1 ELSE -1), A[1][k]),
                   Det(Minor(A, k))))

\* C19: for strictly increasing nodes with two or more intervals, every row of
\* the matrix spline_maker assembles has a positive diagonal entry greater than
\* the sum of the row's other entries; the matrix is not singular and the
\* solver returns finite curvatures.
C19_DiagonallyDominant ==
    CoefficientsBuilt =>
        LET A == Bmat(Diff(xvals))
            m == Len(xvals) - 2
        IN  /\ m >= 1 /\ Len(A) = m
            /\ \A r \in 1..m :
                  /\ QLt(Zero, A[r][r])
                  /\ QLt(OffDiagonalSum(A[r], r, m), A[r][r])
            /\ Det(A) # Zero
            /\ \A j \in 1..Len(ret.bvec) : IsFinite(ret.bvec[j])

\* Witness of C19: coefficients were built from a matrix with off-diagonal
\* entries, for a sample whose interior curvatures are not all zero.
C19_Witness ==
    /\ CoefficientsBuilt
    /\ Len(xvals) >= 4
    /\ Bmat(Diff(xvals))[1][2] # Zero
    /\ \E j \in 2..Len(ret.bvec) : ret.bvec[j] # Zero

=============================================================================
